---------------------------- MODULE Spec2Model ----------------------------
(***************************************************************************)
(* Model of manuscripts/scripts/generate_all_figures.py: the batch script  *)
(* that loads COMPREHENSIVE_RESULTS.json once and runs the five figure     *)
(* renderers generate_figure1 .. generate_figure5 one after the other      *)
(* (Spec), of the same module imported and its renderers called in any     *)
(* order (SpecAnyOrder), and of the standalone script figure2_heatmap.py   *)
(* (SpecHeatmap).                                                          *)
(*                                                                         *)
(* Representation of the JSON document                                     *)
(*   - a JSON object is a TLA+ record; an absent key is a key that is not  *)
(*     in the record's DOMAIN (Python raises KeyError on reading it);      *)
(*   - a JSON array is a sequence;                                         *)
(*   - the raw `tissueList` string is a sequence of one-character strings  *)
(*     (str.split and str.join work on characters);                        *)
(*   - significantBonfRate is held in thousandths (97 stands for 0.097),   *)
(*     so `rate * 100` is the same multiplication in the same unit         *)
(*     (9700 stands for 9.700 percent);                                    *)
(*   - eigenperiods are held in tenths of an hour (240 stands for 24.0 h). *)
(* A draw specification holds the values a renderer hands to the plotting  *)
(* backend (series, labels, legend and text-box values); pixel styling is  *)
(* left out.                                                               *)
(***************************************************************************)
EXTENDS Integers, Sequences, FiniteSets, TLC

VARIABLES
    data,      \* the loaded results document (module global `data`)
    pc,        \* position of the batch run
    figure,    \* figure[k]: the draw specification renderer k built
    written,   \* names of the files present in OUTPUT_DIR
    stdout,    \* the values printed by the completion messages
    error,     \* the uncaught exception that ended the process, if any
    loaded,    \* history: the document as json.load returned it
    calls,     \* history: every renderer call so far, with what it did
    existing,  \* history: the files OUTPUT_DIR held when the module was loaded
    heatmap    \* the state of a run of figure2_heatmap.py

vars == <<data, pc, figure, written, stdout, error, loaded, calls, existing, heatmap>>

----------------------------------------------------------------------------
(* Bounds of the model *)

MaxTissues == 2
MaxTargetGenes == 9
MaxClockGenes == 2
MaxRawLen == 4
MaxCalls == 3
MaxNameLen == 2
MaxValues == 3
MaxHeatClocks == 2

(* Program constants *)

TopTargetsShown == 8
LegendTissueCount == 12
ClockGenesTotal == 8
Wee1NamesShown == 4

----------------------------------------------------------------------------
(* Generic helpers: Python dict, list and str operations *)

Min(a, b) == IF a <= b THEN a ELSE b

Abs(x) == IF x < 0 THEN -x ELSE x

\* lst[:n]
Prefix(lst, n) == SubSeq(lst, 1, Min(n, Len(lst)))

\* d[path[1]][path[2]]... succeeds without KeyError
RECURSIVE HasPath(_, _)
HasPath(d, path) ==
    IF path = <<>> THEN TRUE
    ELSE /\ Head(path) \in DOMAIN d
         /\ HasPath(d[Head(path)], Tail(path))

\* the first path of `paths` (read in this order) that raises KeyError
RECURSIVE FirstMissing(_, _)
FirstMissing(d, paths) ==
    IF paths = <<>> THEN <<>>
    ELSE IF HasPath(d, Head(paths)) THEN FirstMissing(d, Tail(paths))
         ELSE Head(paths)

\* the document with the key at `path` absent
RECURSIVE RemovePath(_, _)
RemovePath(d, path) ==
    IF Len(path) = 1
    THEN [k \in DOMAIN d \ {path[1]} |-> d[k]]
    ELSE [k \in DOMAIN d |->
            IF k = path[1] THEN RemovePath(d[k], Tail(path)) ELSE d[k]]

\* s starts with sep at position i (1-based)
MatchAt(s, sep, i) ==
    /\ i + Len(sep) - 1 <= Len(s)
    /\ \A k \in 1..Len(sep) : s[i + k - 1] = sep[k]

\* str.split(sep): cut at the leftmost occurrence of sep, then go on after it
RECURSIVE SplitFrom(_, _, _, _)
SplitFrom(s, sep, i, cur) ==
    IF i > Len(s) THEN <<cur>>
    ELSE IF MatchAt(s, sep, i)
         THEN <<cur>> \o SplitFrom(s, sep, i + Len(sep), <<>>)
         ELSE SplitFrom(s, sep, i + 1, Append(cur, s[i]))

Split(s, sep) == SplitFrom(s, sep, 1, <<>>)

\* sep.join(parts)
RECURSIVE Join(_, _)
Join(parts, sep) ==
    IF parts = <<>> THEN <<>>
    ELSE IF Len(parts) = 1 THEN parts[1]
         ELSE parts[1] \o sep \o Join(Tail(parts), sep)

CommaSpace == <<",", " ">>


----------------------------------------------------------------------------
(* The results document and the inputs the model draws it from *)

Liver == <<"L", "i", "v", "e", "r">>
Heart == <<"H", "e", "a", "r", "t">>
Kidney == <<"K", "i", "d", "n", "e", "y">>
Muscle == <<"M", "u", "s", "c", "l", "e">>
Lung == <<"L", "u", "n", "g">>

DefaultDoc ==
    [executiveSummary |->
        [totalDatasets |-> 4, totalPairsTested |-> 10000,
         significantBonferroni |-> 970, significantFDR |-> 1500,
         highConfidencePairs |-> 50, tier0Candidates |-> 3],
     byStudy |->
        [GSE54650 |-> [significantBonfRate |-> 97,
                       tissues |-> <<"Liver", "Heart">>],
         GSE221103 |-> [significantBonfRate |-> 122],
         GSE157357 |-> [significantBonfRate |-> 83]],
     topTargetGenes |->
        <<[gene |-> "Wee1", tissuesSignificant |-> 6],
          [gene |-> "Yap1", tissuesSignificant |-> 2]>>,
     topClockGenes |-> <<[gene |-> "Per2"], [gene |-> "Arntl"]>>,
     crossTissueConsensus |->
        [tier0Candidates |->
            [wee1Summary |->
                [tissueList |-> Liver \o CommaSpace \o Heart,
                 tissuesWithSignificance |-> 2,
                 clockGenesGating |-> 8,
                 avgEffectSize |-> 512,
                 biologicalRole |-> "G2/M checkpoint kinase",
                 cancerRelevance |-> "Target of adavosertib"]]],
     eigenperiodAnalysis |->
        [healthyTissuesMean |-> 240, cancerContextMean |-> 215,
         pValue |-> 10, separation |-> 25]]

Wee1Path == <<"crossTissueConsensus", "tier0Candidates", "wee1Summary">>

\* every key path of the schema the script reads
AllPaths ==
    { <<"executiveSummary">>, <<"byStudy">>, <<"topTargetGenes">>,
      <<"topClockGenes">>, <<"crossTissueConsensus">>,
      <<"eigenperiodAnalysis">>,
      <<"crossTissueConsensus", "tier0Candidates">>, Wee1Path }
    \cup { <<"executiveSummary", k>> : k \in DOMAIN DefaultDoc.executiveSummary }
    \cup { <<"byStudy", k>> : k \in DOMAIN DefaultDoc.byStudy }
    \cup { <<"byStudy", k, "significantBonfRate">> : k \in DOMAIN DefaultDoc.byStudy }
    \cup { <<"byStudy", "GSE54650", "tissues">> }
    \cup { Wee1Path \o <<k>> :
             k \in DOMAIN DefaultDoc.crossTissueConsensus.tier0Candidates.wee1Summary }
    \cup { <<"eigenperiodAnalysis", k>> : k \in DOMAIN DefaultDoc.eigenperiodAnalysis }

\* sequences over S of length 0..n
SeqsUpTo(S, n) == UNION { [1..k -> S] : k \in 0..n }

Rates == {0, 97, 122}
TissueNames == {"Liver", "Heart"}

\* documents that differ in byStudy
StudyDocs ==
    { [DefaultDoc EXCEPT
         !.byStudy.GSE54650.significantBonfRate = r1,
         !.byStudy.GSE54650.tissues = ts,
         !.byStudy.GSE221103.significantBonfRate = r2,
         !.byStudy.GSE157357.significantBonfRate = r3] :
      r1 \in Rates, r2 \in Rates, r3 \in Rates,
      ts \in SeqsUpTo(TissueNames, MaxTissues) }

GeneNames ==
    <<"Wee1", "Yap1", "Tead1", "Ccnb1", "Cdk1", "Myc", "Ccnd1", "Chek1",
      "Lats1", "Cdc25a", "Plk1", "Tp53">>
ClockNames == <<"Per2", "Arntl", "Clock", "Nr1d1">>

\* a ranked target list of n genes whose tissue counts follow base + step*rank
TargetList(n, base, step) ==
    [i \in 1..n |-> [gene |-> GeneNames[i],
                     tissuesSignificant |-> (base + step * (i - 1)) % 7]]

ClockList(n) == [j \in 1..n |-> [gene |-> ClockNames[j]]]

\* documents that differ in topTargetGenes and topClockGenes
GeneDocs ==
    { [DefaultDoc EXCEPT !.topTargetGenes = TargetList(n, base, step),
                         !.topClockGenes = ClockList(m)] :
      n \in 0..MaxTargetGenes, base \in {0, 6}, step \in 0..2,
      m \in 0..MaxClockGenes }

\* documents one of whose gene entries lacks a key
BrokenGeneDocs ==
    { [DefaultDoc EXCEPT !.topTargetGenes[2] = [gene |-> "Yap1"]],
      [DefaultDoc EXCEPT !.topTargetGenes[1] = [tissuesSignificant |-> 6]],
      [DefaultDoc EXCEPT !.topTargetGenes[2] = [gene |-> "Yap1"],
                         !.topClockGenes = <<>>],
      [DefaultDoc EXCEPT !.topClockGenes[2] = [name |-> "Arntl"]] }

RawAlphabet == {"L", ",", " "}

RawStrings ==
    SeqsUpTo(RawAlphabet, MaxRawLen)
    \cup { Liver, Liver \o <<",">> \o Heart,
           Liver \o CommaSpace \o Heart \o CommaSpace \o Kidney
                 \o CommaSpace \o Muscle \o CommaSpace \o Lung }

\* documents that differ in wee1Summary.tissueList
Wee1Docs ==
    { [DefaultDoc EXCEPT
         !.crossTissueConsensus.tier0Candidates.wee1Summary.tissueList = raw] :
      raw \in RawStrings }

Counts == {0, 970, 1500}

\* documents that differ in the counts of wee1Summary
Wee1StatDocs ==
    { [DefaultDoc EXCEPT
         !.crossTissueConsensus.tier0Candidates.wee1Summary.tissuesWithSignificance = n,
         !.crossTissueConsensus.tier0Candidates.wee1Summary.clockGenesGating = g] :
      n \in {0, 2, 5}, g \in {0, 5, 8} }

\* documents that differ in executiveSummary
SummaryDocs ==
    { [DefaultDoc EXCEPT
         !.executiveSummary.totalPairsTested = a,
         !.executiveSummary.significantBonferroni = b,
         !.executiveSummary.significantFDR = c,
         !.executiveSummary.highConfidencePairs = h,
         !.executiveSummary.tier0Candidates = t] :
      a \in Counts, b \in Counts, c \in Counts, h \in Counts, t \in Counts }

\* documents that differ in eigenperiodAnalysis (separation may be stale)
EigenDocs ==
    { [DefaultDoc EXCEPT
         !.eigenperiodAnalysis.healthyTissuesMean = h,
         !.eigenperiodAnalysis.cancerContextMean = c,
         !.eigenperiodAnalysis.separation = s] :
      h \in {0, 240}, c \in {215, 240, 265}, s \in {0, 25, 50} }

\* documents with one key absent
MissingDocs ==
    { RemovePath(d, p) : d \in {DefaultDoc} \cup EigenDocs, p \in AllPaths }

Documents ==
    StudyDocs \cup GeneDocs \cup BrokenGeneDocs \cup Wee1Docs \cup Wee1StatDocs
    \cup SummaryDocs \cup EigenDocs \cup MissingDocs

----------------------------------------------------------------------------
(* Output files and process state *)

NoFigure == [drawn |-> FALSE]
NoError == [kind |-> "none"]
KeyError(k) == [kind |-> "KeyError", key |-> k]
IndexError == [kind |-> "IndexError"]
ValueError == [kind |-> "ValueError"]
NotRaised == [exception |-> NoError, raisedBy |-> 0]

Renderers == 1..5

\* faulty variant: figure 3 is saved under figure 2's PNG name
PngName_Clash ==
    <<"figure1_discovery_rates.png", "figure2_heatmap.png",
      "figure2_heatmap.png", "figure4_wee1_profile.png",
      "figure5_validation.png">>

PngName ==
    <<"figure1_discovery_rates.png", "figure2_heatmap.png",
      "figure3_model.png", "figure4_wee1_profile.png",
      "figure5_validation.png">>
PdfName ==
    <<"figure1_discovery_rates.pdf", "figure2_heatmap.pdf",
      "figure3_model.pdf", "figure4_wee1_profile.pdf",
      "figure5_validation.pdf">>

FilesOf(k) == {PngName[k], PdfName[k]}

\* a file of OUTPUT_DIR that no renderer writes
OtherFile == "notes.txt"

\* os.makedirs(OUTPUT_DIR, exist_ok=True) keeps what the directory holds:
\* nothing, a file of somebody else, both files of one figure left by an
\* earlier run, or its PNG alone
OutputDirs ==
    {{}, {OtherFile}}
    \cup {FilesOf(k) : k \in Renderers}
    \cup {{PngName[k]} : k \in Renderers}

\* what one call of a renderer did: the exception it raised (if any), whether
\* it reached its two savefig calls, the draw specification it had built by
\* then, and what its completion message printed
Raised(e) == [raised |-> e, saved |-> FALSE, spec |-> NoFigure, printed |-> <<>>]
RaisedAfterSave(e, spec) == [raised |-> e, saved |-> TRUE, spec |-> spec, printed |-> <<>>]
Completed(spec, msg) == [raised |-> NoError, saved |-> TRUE, spec |-> spec, printed |-> <<msg>>]

Last(path) == path[Len(path)]


----------------------------------------------------------------------------
(* FIGURE 1: discovery rates by study *)

\* the keys generate_figure1 reads, in reading order, all before savefig
Fig1Reads ==
    << <<"byStudy">>,
       <<"byStudy", "GSE54650">>,
       <<"byStudy", "GSE54650", "significantBonfRate">>,
       <<"byStudy", "GSE54650", "tissues">>,
       <<"byStudy", "GSE221103">>,
       <<"byStudy", "GSE221103", "significantBonfRate">>,
       <<"byStudy", "GSE157357">>,
       <<"byStudy", "GSE157357", "significantBonfRate">>,
       <<"executiveSummary">>,
       <<"executiveSummary", "totalDatasets">>,
       <<"executiveSummary", "totalPairsTested">> >>

TissueCategory == "GSE54650"
CancerCategory == "Cancer"
OrganoidCategory == "Organoid"

\* faulty variant: the stored fraction is used without the factor 100
Percent_Fraction(rate) == rate

\* stored fraction -> percentage
Percent(rate) == rate * 100

\* faulty variant: the organoid row is not appended
DiscoveryRateTable_NoOrganoid(by_study) ==
    [i \in 1..Len(by_study.GSE54650.tissues) |->
        <<by_study.GSE54650.tissues[i],
          by_study.GSE54650.significantBonfRate * 100, "GSE54650">>]
    \o << <<"MYC-ON (Cancer)", by_study.GSE221103.significantBonfRate * 100,
            "Cancer">> >>

\* tissues_data: one (label, rate, category) row per tissue of the primary
\* study, then the cancer row, then the organoid row
DiscoveryRateTable(by_study) ==
    LET gse54650_rate == Percent(by_study.GSE54650.significantBonfRate)
        gse54650_tissues == by_study.GSE54650.tissues
        myc_on_rate == Percent(by_study.GSE221103.significantBonfRate)
        organoid_rate == Percent(by_study.GSE157357.significantBonfRate)
    IN  [i \in 1..Len(gse54650_tissues) |->
            <<gse54650_tissues[i], gse54650_rate, TissueCategory>>]
        \o << <<"MYC-ON (Cancer)", myc_on_rate, CancerCategory>>,
              <<"Organoids", organoid_rate, OrganoidCategory>> >>

color_map == [GSE54650 |-> "#22d3ee", Cancer |-> "#ef4444", Organoid |-> "#22c55e"]

\* the tissue count of the first legend entry
LegendCount(tissues) == LegendTissueCount

Figure1Spec(d) ==
    LET by_study == d.byStudy
        tissues_data == DiscoveryRateTable(by_study)
        n == Len(tissues_data)
    IN  [drawn |-> TRUE,
         tissues_data |-> tissues_data,
         tissues |-> [i \in 1..n |-> tissues_data[i][1]],
         rates |-> [i \in 1..n |-> tissues_data[i][2]],
         colors |-> [i \in 1..n |-> color_map[tissues_data[i][3]]],
         legend |->
            [tissueCount |-> LegendCount(by_study.GSE54650.tissues),
             tissueRate |-> Percent(by_study.GSE54650.significantBonfRate),
             cancerRate |-> Percent(by_study.GSE221103.significantBonfRate),
             organoidRate |-> Percent(by_study.GSE157357.significantBonfRate)],
         valueLabels |-> [i \in 1..n |-> tissues_data[i][2]],
         source |-> [totalDatasets |-> d.executiveSummary.totalDatasets,
                     totalPairsTested |-> d.executiveSummary.totalPairsTested]]

generate_figure1(d) ==
    LET miss == FirstMissing(d, Fig1Reads)
    IN  IF miss # <<>> THEN Raised(KeyError(Last(miss)))
        ELSE Completed(Figure1Spec(d),
                 [fig |-> 1,
                  tissue |-> Percent(d.byStudy.GSE54650.significantBonfRate),
                  cancer |-> Percent(d.byStudy.GSE221103.significantBonfRate)])

----------------------------------------------------------------------------
(* FIGURE 2: top target genes x clock genes heatmap *)

\* matrix[i, j] = target['tissuesSignificant'] for every clock gene column j
GeneSignificanceMatrix(top_targets, clock_genes) ==
    [i \in 1..Len(top_targets) |->
        [j \in 1..Len(clock_genes) |-> top_targets[i].tissuesSignificant]]

\* faulty variant: the target list is not cut to its first eight entries
TopTargets_All(d) == d.topTargetGenes

\* data['topTargetGenes'][:8]
TopTargets(d) == Prefix(d.topTargetGenes, TopTargetsShown)

Figure2Spec(d) ==
    LET top_targets == TopTargets(d)
        top_clocks == d.topClockGenes
        target_names == [i \in 1..Len(top_targets) |-> top_targets[i].gene]
        clock_genes == [j \in 1..Len(top_clocks) |-> top_clocks[j].gene]
        matrix == GeneSignificanceMatrix(top_targets, clock_genes)
    IN  [drawn |-> TRUE,
         target_names |-> target_names,
         clock_genes |-> clock_genes,
         matrix |-> matrix,
         annotations |-> matrix,
         source |-> [significantBonferroni |->
                        d.executiveSummary.significantBonferroni]]

\* the first exception of generate_figure2 before its savefig calls
Fig2ErrorBeforeSave(d) ==
    LET miss == FirstMissing(d, << <<"topTargetGenes">>, <<"topClockGenes">> >>)
    IN  IF miss # <<>> THEN KeyError(Last(miss))
        ELSE LET top_targets == TopTargets(d)
                 top_clocks == d.topClockGenes
             IN  IF \E i \in 1..Len(top_targets) : "gene" \notin DOMAIN top_targets[i]
                 THEN KeyError("gene")
                 ELSE IF \E j \in 1..Len(top_clocks) : "gene" \notin DOMAIN top_clocks[j]
                 THEN KeyError("gene")
                 ELSE IF /\ Len(top_clocks) > 0
                         /\ \E i \in 1..Len(top_targets) :
                               "tissuesSignificant" \notin DOMAIN top_targets[i]
                 THEN KeyError("tissuesSignificant")
                 ELSE LET m2 == FirstMissing(d,
                                  << <<"executiveSummary">>,
                                     <<"executiveSummary", "significantBonferroni">> >>)
                      IN  IF m2 # <<>> THEN KeyError(Last(m2)) ELSE NoError

\* the completion message indexes target_names[0] and matrix[0, 0] after the
\* two savefig calls
generate_figure2(d) ==
    LET e == Fig2ErrorBeforeSave(d)
    IN  IF e # NoError THEN Raised(e)
        ELSE LET spec == Figure2Spec(d)
             IN  IF Len(spec.target_names) = 0 \/ Len(spec.clock_genes) = 0
                 THEN RaisedAfterSave(IndexError, spec)
                 ELSE Completed(spec,
                          [fig |-> 2, top |-> spec.target_names[1],
                           tissues |-> spec.matrix[1][1]])


----------------------------------------------------------------------------
(* FIGURE 3: tissue vulnerability model *)

Wee1Summary(d) == d.crossTissueConsensus.tier0Candidates.wee1Summary

\* faulty variant: the raw string is split on the comma alone
Wee1Tissues_Comma(raw) == Split(raw, <<",">>)

\* wee1Summary['tissueList'].split(', ')
Wee1Tissues(raw) == Split(raw, CommaSpace)

\* the five boxes the diagram always draws
ModelTissues == <<Liver, Muscle, Lung, Heart, Kidney>>

Fig3Reads ==
    << <<"crossTissueConsensus">>,
       <<"crossTissueConsensus", "tier0Candidates">>,
       Wee1Path,
       Wee1Path \o <<"tissueList">> >>

Figure3Spec(d) ==
    LET wee1_tissues == Wee1Tissues(Wee1Summary(d).tissueList)
        in_wee1(name) == \E i \in 1..Len(wee1_tissues) : wee1_tissues[i] = name
    IN  [drawn |-> TRUE,
         boxes |-> [i \in 1..Len(ModelTissues) |->
                      [name |-> ModelTissues[i],
                       highlighted |-> in_wee1(ModelTissues[i])]],
         subtitle |->
            [count |-> Len(wee1_tissues),
             names |-> Join(Prefix(wee1_tissues, Wee1NamesShown), CommaSpace)]]

generate_figure3(d) ==
    LET miss == FirstMissing(d, Fig3Reads)
    IN  IF miss # <<>> THEN Raised(KeyError(Last(miss)))
        ELSE LET spec == Figure3Spec(d)
             IN  Completed(spec, [fig |-> 3, tissues |-> spec.subtitle.count])

----------------------------------------------------------------------------
(* FIGURE 4: Wee1 profile *)

Fig4Reads ==
    << <<"crossTissueConsensus">>,
       <<"crossTissueConsensus", "tier0Candidates">>,
       Wee1Path,
       Wee1Path \o <<"tissueList">>,
       Wee1Path \o <<"tissuesWithSignificance">>,
       Wee1Path \o <<"clockGenesGating">>,
       Wee1Path \o <<"avgEffectSize">>,
       Wee1Path \o <<"biologicalRole">>,
       Wee1Path \o <<"cancerRelevance">>,
       <<"executiveSummary">>,
       <<"executiveSummary", "totalDatasets">> >>

Figure4Spec(d) ==
    LET wee1_data == Wee1Summary(d)
        tissues == Wee1Tissues(wee1_data.tissueList)
    IN  [drawn |-> TRUE,
         tissues |-> tissues,
         coverage |-> [i \in 1..Len(tissues) |-> 1],
         title |-> [tissuesWithSignificance |-> wee1_data.tissuesWithSignificance],
         barLabels |-> [i \in 1..Len(tissues) |-> wee1_data.clockGenesGating],
         stats |->
            [tissuesWithSignificance |-> wee1_data.tissuesWithSignificance,
             clockGenesGating |-> wee1_data.clockGenesGating,
             clockGenesTotal |-> ClockGenesTotal,
             avgEffectSize |-> wee1_data.avgEffectSize,
             biologicalRole |-> wee1_data.biologicalRole,
             cancerRelevance |-> wee1_data.cancerRelevance,
             totalDatasets |-> d.executiveSummary.totalDatasets]]

generate_figure4(d) ==
    LET miss == FirstMissing(d, Fig4Reads)
    IN  IF miss # <<>> THEN Raised(KeyError(Last(miss)))
        ELSE Completed(Figure4Spec(d),
                 [fig |-> 4, effect |-> Wee1Summary(d).avgEffectSize])

----------------------------------------------------------------------------
(* FIGURE 5: statistical validation summary *)

\* the keys generate_figure5 reads before its savefig calls, in reading order
Fig5Reads ==
    << <<"executiveSummary">>,
       <<"eigenperiodAnalysis">>,
       <<"eigenperiodAnalysis", "healthyTissuesMean">>,
       <<"eigenperiodAnalysis", "cancerContextMean">>,
       <<"eigenperiodAnalysis", "pValue">>,
       <<"executiveSummary", "totalPairsTested">>,
       <<"executiveSummary", "significantBonferroni">>,
       <<"executiveSummary", "significantFDR">>,
       <<"executiveSummary", "highConfidencePairs">>,
       <<"executiveSummary", "tier0Candidates">>,
       <<"executiveSummary", "totalDatasets">> >>

\* the key the completion message reads after the savefig calls
Fig5ReadsAfterSave == << <<"eigenperiodAnalysis", "separation">> >>

funnel_labels == <<"Tested", "Bonferroni\nSig", "FDR\nSig", "High\nConfidence", "TIER 0">>

\* faulty variant: the FDR and Bonferroni counts change places
FunnelValues_Swapped(summary) ==
    <<summary.totalPairsTested,
      summary.significantFDR,
      summary.significantBonferroni,
      summary.highConfidencePairs,
      summary.tier0Candidates>>

FunnelValues(summary) ==
    <<summary.totalPairsTested,
      summary.significantBonferroni,
      summary.significantFDR,
      summary.highConfidencePairs,
      summary.tier0Candidates>>

\* the (label, count) bars of the middle panel, in drawing order
SignificanceFunnel(summary) ==
    LET values == FunnelValues(summary)
    IN  [i \in 1..Len(values) |-> <<funnel_labels[i], values[i]>>]

\* the separation the completion message reports
ReportedSeparation(eigenperiod) == eigenperiod.separation

\* (the funnel's bar heights are log10(max(count, 1)); the counts themselves
\* are the bars' text labels)
Figure5Spec(d) ==
    LET summary == d.executiveSummary
        eigenperiod == d.eigenperiodAnalysis
    IN  [drawn |-> TRUE,
         eigenperiods |-> <<eigenperiod.healthyTissuesMean,
                            eigenperiod.cancerContextMean>>,
         pValue |-> eigenperiod.pValue,
         funnel |-> SignificanceFunnel(summary),
         stats |->
            [totalDatasets |-> summary.totalDatasets,
             totalPairsTested |-> summary.totalPairsTested,
             significantBonferroni |-> summary.significantBonferroni,
             significantFDR |-> summary.significantFDR,
             highConfidencePairs |-> summary.highConfidencePairs,
             tier0Candidates |-> summary.tier0Candidates,
             healthy |-> eigenperiod.healthyTissuesMean,
             cancer |-> eigenperiod.cancerContextMean,
             pValue |-> eigenperiod.pValue]]

generate_figure5(d) ==
    LET miss == FirstMissing(d, Fig5Reads)
    IN  IF miss # <<>> THEN Raised(KeyError(Last(miss)))
        ELSE LET spec == Figure5Spec(d)
                 late == FirstMissing(d, Fig5ReadsAfterSave)
             IN  IF late # <<>> THEN RaisedAfterSave(KeyError(Last(late)), spec)
                 ELSE Completed(spec,
                          [fig |-> 5,
                           separation |-> ReportedSeparation(d.eigenperiodAnalysis)])

----------------------------------------------------------------------------
(* figure2_heatmap.py: one heat map per tissue *)

\* Representation of figure2_heatmap.json: `tissues` and each tissue's
\* targets are JSON objects read in key order, so they are sequences of
\* (key, value) records with distinct keys; a tissue name is a sequence of
\* characters; a value is Null (JSON null) or Num(v).  clockGenes and a
\* tissue's targets may be empty.

Null == <<>>
Num(v) == <<v>>

\* the script has not been started
HeatmapNotRun == [pc |-> "idle"]

NameAlphabet == {"A", " ", "_"}
HeatNames == SeqsUpTo(NameAlphabet, MaxNameLen)

HeatClocks(m) == SubSeq(ClockNames, 1, m)

\* inputs of two tissues that differ in their names
NameDocs ==
    { [clockGenes |-> HeatClocks(1),
       tissues |-> <<[name |-> a, targets |-> <<[gene |-> "Wee1", values |-> <<Num(1)>>]>>],
                     [name |-> b, targets |-> <<[gene |-> "Wee1", values |-> <<Num(2)>>]>>]>>] :
      <<a, b>> \in {p \in HeatNames \X HeatNames : p[1] # p[2]} }

\* target objects of no gene, one gene or two genes
TargetSets ==
    {<<>>}
    \cup { <<[gene |-> "Wee1", values |-> v]>> : v \in SeqsUpTo({Null, Num(5)}, MaxValues) }
    \cup { <<[gene |-> "Wee1", values |-> v], [gene |-> "Yap1", values |-> w]>> :
             v \in SeqsUpTo({Null, Num(5)}, MaxValues),
             w \in SeqsUpTo({Null, Num(7)}, MaxValues) }

FixedTissue == [name |-> <<"A", "A">>, targets |-> <<[gene |-> "Cdk1", values |-> <<Num(3)>>]>>]

\* inputs that differ in the value lists of one tissue, listed first or second
ValueDocs ==
    { [clockGenes |-> HeatClocks(m),
       tissues |-> IF first THEN <<[name |-> <<"A">>, targets |-> ts], FixedTissue>>
                            ELSE <<FixedTissue, [name |-> <<"A">>, targets |-> ts]>>] :
      m \in 0..MaxHeatClocks, ts \in TargetSets, first \in BOOLEAN }

HeatmapDocs == NameDocs \cup ValueDocs

\* tissue.replace(" ", "_")
Underscored(tissue) ==
    [i \in 1..Len(tissue) |-> IF tissue[i] = " " THEN "_" ELSE tissue[i]]

\* f'figure2_heatmap_{tissue.replace(" ", "_")}.<ext>'
HeatmapFile(tissue, ext) == [stem |-> Underscored(tissue), ext |-> ext]

\* faulty variant: any value list longer than clockGenes is refused
Overflows_AnyLonger(values, ncols) == Len(values) > ncols

\* matrix[i, j] = val raises IndexError: a value that is not None at a
\* column the matrix does not have
Overflows(values, ncols) ==
    \E j \in (ncols + 1)..Len(values) : values[j] # Null

\* cell j of a row: the value when it exists and is not None, the 0 of
\* np.zeros otherwise
Cell(values, j) ==
    IF j <= Len(values) /\ values[j] # Null THEN values[j][1] ELSE 0

\* the DataFrame of one tissue
HeatFrame(tissue, clock_genes) ==
    [tissue |-> tissue.name,
     index |-> [i \in 1..Len(tissue.targets) |-> tissue.targets[i].gene],
     columns |-> clock_genes,
     matrix |-> [i \in 1..Len(tissue.targets) |->
                    [j \in 1..Len(clock_genes) |-> Cell(tissue.targets[i].values, j)]]]

\* json.load, clock_genes = data["clockGenes"]: the loop is about to start
HeatmapLoaded(d) ==
    [pc |-> "loop", data |-> d, next |-> 1, drawn |-> <<>>,
     files |-> <<>>, error |-> NoError]

\* the batch script is not part of a run of figure2_heatmap.py
InitHeatmap ==
    /\ heatmap \in {HeatmapLoaded(d) : d \in HeatmapDocs}
    /\ data = DefaultDoc
    /\ pc = "idle"
    /\ figure = [k \in Renderers |-> NoFigure]
    /\ written = {}
    /\ stdout = <<>>
    /\ error = NotRaised
    /\ loaded = data
    /\ calls = <<>>
    /\ existing = {}

\* a frame without a cell: no gene or no clock gene
EmptyFrame(frame) == Len(frame.index) = 0 \/ Len(frame.columns) = 0

\* one iteration of the loop over data["tissues"].items(): build the matrix
\* (IndexError on a value outside it), draw it, save the PDF and the PNG (a
\* file of the same name is replaced).  sns.heatmap computes the colour range
\* of the frame itself (no vmin, vmax): on a frame without a cell the library
\* either raises ValueError before anything is saved or draws an empty image,
\* according to its version; both outcomes are kept.
HeatmapTissue ==
    /\ heatmap.pc = "loop"
    /\ heatmap.next <= Len(heatmap.data.tissues)
    /\ LET tissue == heatmap.data.tissues[heatmap.next]
           clock_genes == heatmap.data.clockGenes
           frame == HeatFrame(tissue, clock_genes)
           overflow == \E i \in 1..Len(tissue.targets) :
                          Overflows(tissue.targets[i].values, Len(clock_genes))
       IN  \/ /\ overflow
              /\ heatmap' = [heatmap EXCEPT !.pc = "aborted", !.error = IndexError]
           \/ /\ ~overflow
              /\ EmptyFrame(frame)
              /\ heatmap' = [heatmap EXCEPT !.pc = "aborted", !.error = ValueError]
           \/ /\ ~overflow
              /\ heatmap' =
                  [heatmap EXCEPT
                     !.next = @ + 1,
                     !.drawn = Append(@, frame),
                     !.files = (HeatmapFile(tissue.name, "pdf") :> frame)
                               @@ (HeatmapFile(tissue.name, "png") :> frame)
                               @@ @]
    /\ UNCHANGED <<data, pc, figure, written, stdout, error, loaded, calls, existing>>

\* the loop is over: the closing message
HeatmapFinish ==
    /\ heatmap.pc = "loop"
    /\ heatmap.next > Len(heatmap.data.tissues)
    /\ heatmap' = [heatmap EXCEPT !.pc = "done"]
    /\ UNCHANGED <<data, pc, figure, written, stdout, error, loaded, calls, existing>>

NextHeatmap ==
    \/ HeatmapTissue
    \/ HeatmapFinish

SpecHeatmap == InitHeatmap /\ [][NextHeatmap]_vars

----------------------------------------------------------------------------
(* The batch run: module load, __main__ *)

TypeOK ==
    /\ data \in Documents
    /\ pc \in {"main", "figure1", "figure2", "figure3", "figure4", "figure5",
               "listing", "done", "aborted", "imported", "idle"}
    /\ DOMAIN figure = Renderers
    /\ existing \in OutputDirs
    /\ existing \subseteq written
    /\ written \subseteq existing \cup UNION {FilesOf(k) : k \in Renderers}
    /\ error.exception.kind \in {"none", "KeyError", "IndexError"}
    /\ error.raisedBy \in 0..5
    /\ loaded \in Documents
    /\ \A n \in 1..Len(calls) : calls[n].renderer \in Renderers

\* os.makedirs and json.load at import: OUTPUT_DIR keeps what it holds, the
\* document is read once
Init ==
    /\ data \in Documents
    /\ pc = "main"
    /\ figure = [k \in Renderers |-> NoFigure]
    /\ written \in OutputDirs
    /\ existing = written
    /\ stdout = <<>>
    /\ error = NotRaised
    /\ loaded = data
    /\ calls = <<>>
    /\ heatmap = HeatmapNotRun

\* the keys the data summary of __main__ prints before the first renderer
MainReads ==
    << <<"executiveSummary">>,
       <<"executiveSummary", "totalDatasets">>,
       <<"executiveSummary", "totalPairsTested">>,
       <<"executiveSummary", "significantBonferroni">> >>

\* where the batch goes after renderer k returns
NextPc(k) == IF k = 5 THEN "listing" ELSE <<"figure2", "figure3", "figure4", "figure5">>[k]

\* an exception nobody catches ends the process; k is the renderer that
\* raised it (0: the body of __main__ itself)
Abort(e, k) == /\ error' = [exception |-> e, raisedBy |-> k]
               /\ pc' = "aborted"

\* faulty variant: generate_figure2 cuts the shared target list in place
DataAfter_Truncates(k, d) ==
    IF k = 2 /\ "topTargetGenes" \in DOMAIN d
    THEN [d EXCEPT !.topTargetGenes = Prefix(@, TopTargetsShown)]
    ELSE d

\* the module global `data` after the call generate_figure<k>(): no renderer
\* assigns to it or changes an object reachable from it (slices, split and
\* the list comprehensions build new lists)
DataAfter(k, d) == d

\* what the call generate_figure<k>() with outcome `out` does to the figures,
\* the output directory, stdout and the document
Run(k, out) ==
    /\ figure' = [figure EXCEPT ![k] = out.spec]
    /\ written' = IF out.saved THEN written \cup {PngName[k], PdfName[k]} ELSE written
    /\ stdout' = stdout \o out.printed
    /\ data' = DataAfter(k, data)
    /\ calls' = Append(calls, [renderer |-> k, outcome |-> out])
    /\ UNCHANGED <<loaded, existing, heatmap>>

\* one call generate_figure<k>() from __main__, with outcome `out`
Call(k, out) ==
    /\ Run(k, out)
    /\ IF out.raised # NoError
       THEN Abort(out.raised, k)
       ELSE pc' = NextPc(k) /\ error' = error

\* what the call generate_figure<k>() does on document d
Outcome(k, d) ==
    CASE k = 1 -> generate_figure1(d)
      [] k = 2 -> generate_figure2(d)
      [] k = 3 -> generate_figure3(d)
      [] k = 4 -> generate_figure4(d)
      [] k = 5 -> generate_figure5(d)

\* the keys of executiveSummary the data summary prints, one print each
SummaryKeys == <<"totalDatasets", "totalPairsTested", "significantBonferroni">>

\* the value lines the data summary has printed when it ends: one line per
\* key, up to the first key that is absent
SummaryPrinted(d) ==
    IF ~HasPath(d, <<"executiveSummary">>) THEN <<>>
    ELSE LET present == {n \in 0..Len(SummaryKeys) :
                            \A i \in 1..n : SummaryKeys[i] \in DOMAIN d.executiveSummary}
             count == CHOOSE n \in present : \A m \in present : m <= n
         IN  [i \in 1..count |->
                 [fig |-> 0, key |-> SummaryKeys[i],
                  value |-> d.executiveSummary[SummaryKeys[i]]]]

\* the three prints run in turn; the first absent key raises KeyError after
\* the lines before it were printed
MainSummary ==
    /\ pc = "main"
    /\ stdout' = stdout \o SummaryPrinted(data)
    /\ LET miss == FirstMissing(data, MainReads)
       IN  IF miss # <<>>
           THEN Abort(KeyError(Last(miss)), 0)
           ELSE pc' = "figure1" /\ error' = error
    /\ UNCHANGED <<data, figure, written, loaded, calls, existing, heatmap>>

GenerateFigure1 == pc = "figure1" /\ Call(1, Outcome(1, data))
GenerateFigure2 == pc = "figure2" /\ Call(2, Outcome(2, data))
GenerateFigure3 == pc = "figure3" /\ Call(3, Outcome(3, data))
GenerateFigure4 == pc = "figure4" /\ Call(4, Outcome(4, data))
GenerateFigure5 == pc = "figure5" /\ Call(5, Outcome(5, data))

\* the closing listing of OUTPUT_DIR
ListFiles ==
    /\ pc = "listing"
    /\ pc' = "done"
    /\ stdout' = Append(stdout, [fig |-> 6, files |-> written])
    /\ UNCHANGED <<data, figure, written, error, loaded, calls, existing, heatmap>>

Next ==
    \/ MainSummary
    \/ GenerateFigure1
    \/ GenerateFigure2
    \/ GenerateFigure3
    \/ GenerateFigure4
    \/ GenerateFigure5
    \/ ListFiles

Spec == Init /\ [][Next]_vars

----------------------------------------------------------------------------
(* The module imported: its renderers called in any order, any number of   *)
(* times, by a caller that catches what they raise                         *)

\* the documents of the any-order runs: the valid default, one key absent,
\* broken gene entries, empty and over-long gene lists, short raw strings
AnyOrderDocs ==
    {DefaultDoc} \cup BrokenGeneDocs
    \cup { RemovePath(DefaultDoc, p) : p \in AllPaths }
    \cup { [DefaultDoc EXCEPT !.topTargetGenes = TargetList(n, 6, step),
                              !.topClockGenes = ClockList(m)] :
             n \in {0, MaxTargetGenes}, step \in 0..1, m \in {0, MaxClockGenes} }
    \cup { [DefaultDoc EXCEPT
              !.crossTissueConsensus.tier0Candidates.wee1Summary.tissueList = raw] :
             raw \in SeqsUpTo(RawAlphabet, 1) }

\* import generate_all_figures: the document is loaded, __main__ is skipped
InitAnyOrder ==
    /\ data \in AnyOrderDocs
    /\ pc = "imported"
    /\ figure = [k \in Renderers |-> NoFigure]
    /\ written \in OutputDirs
    /\ existing = written
    /\ stdout = <<>>
    /\ error = NotRaised
    /\ loaded = data
    /\ calls = <<>>
    /\ heatmap = HeatmapNotRun

\* the caller invokes generate_figure<k>() and catches what it raises
Invoke(k) ==
    /\ pc = "imported"
    /\ Len(calls) < MaxCalls
    /\ LET out == Outcome(k, data)
       IN  /\ Run(k, out)
           /\ error' = IF out.raised # NoError
                       THEN [exception |-> out.raised, raisedBy |-> k]
                       ELSE error
    /\ pc' = pc

InvokeRenderer == \E k \in Renderers : Invoke(k)

NextAnyOrder == InvokeRenderer

SpecAnyOrder == InitAnyOrder /\ [][NextAnyOrder]_vars


----------------------------------------------------------------------------
(* Properties *)

\* the renderers whose savefig calls have run
Saved == {calls[n].renderer : n \in {m \in 1..Len(calls) : calls[m].outcome.saved}}

\* C1: in a batch run, a failure raised by one renderer does not prevent the
\* other renderers from running: once the run has ended after renderer i
\* raised, every other renderer whose own inputs resolve has written its files.
C1_FailSoftPerFigure ==
    \A i \in Renderers :
        (pc = "aborted" /\ error.raisedBy = i) =>
            \A j \in Renderers \ {i} :
                Outcome(j, data).saved => j \in Saved /\ FilesOf(j) \subseteq written

\* C2: a renderer one of whose reads cannot be resolved (absent key, index
\* into an empty sequence) writes neither its PNG nor its PDF.
C2_NoWriteWhenUnresolved ==
    \A k \in Renderers :
        Outcome(k, data).raised # NoError => k \notin Saved

\* C3: whenever the validation figure has been built, its step completes and
\* the separation it reports is |cancerContextMean - healthyTissuesMean|,
\* also when the stored `separation` is stale or absent.
C3_SeparationRecomputed ==
    figure[5].drawn =>
        /\ error = NotRaised
        /\ \E n \in 1..Len(stdout) :
              /\ stdout[n].fig = 5
              /\ stdout[n].separation =
                    Abs(data.eigenperiodAnalysis.cancerContextMean
                        - data.eigenperiodAnalysis.healthyTissuesMean)

\* the numbers of the document a value of the Wee1 statistics box can come from
Fig4SourceNumbers(d) ==
    {Wee1Summary(d).tissuesWithSignificance, Wee1Summary(d).clockGenesGating,
     Wee1Summary(d).avgEffectSize, d.executiveSummary.totalDatasets}
    \cup (IF "topClockGenes" \in DOMAIN d THEN {Len(d.topClockGenes)} ELSE {})

\* C4: the numbers a renderer displays are values of the document, not
\* constants of the code: the tissue count of figure 1's legend is the length
\* of the primary study's `tissues`, and the clock-gene total of figure 4 is
\* a number of the document.
C4_NoInventedConstants ==
    /\ figure[1].drawn =>
          figure[1].legend.tissueCount = Len(data.byStudy.GSE54650.tissues)
    /\ figure[4].drawn =>
          figure[4].stats.clockGenesTotal \in Fig4SourceNumbers(data)


\* C5: the discovery-rate table has one row per tissue of the primary study,
\* in stored order, then the cancer row, then the organoid row; every tissue
\* row carries the tissue category (which the code tags with the primary
\* study's id, GSE54650), exactly one row is Cancer and exactly one Organoid.
C5_TableRowsAndCategories ==
    figure[1].drawn =>
        LET rows == figure[1].tissues_data
            ts == data.byStudy.GSE54650.tissues
            n == Len(ts)
        IN  /\ Len(rows) = n + 2
            /\ \A i \in 1..n : rows[i][1] = ts[i] /\ rows[i][3] = "GSE54650"
            /\ rows[n + 1][1] = "MYC-ON (Cancer)" /\ rows[n + 1][3] = "Cancer"
            /\ rows[n + 2][1] = "Organoids" /\ rows[n + 2][3] = "Organoid"
            /\ Cardinality({i \in 1..Len(rows) : rows[i][3] = "Cancer"}) = 1
            /\ Cardinality({i \in 1..Len(rows) : rows[i][3] = "Organoid"}) = 1
            /\ Cardinality({i \in 1..Len(rows) : rows[i][3] = "GSE54650"}) = n
            /\ figure[1].tissues = [i \in 1..Len(rows) |-> rows[i][1]]

C5_Witness ==
    /\ figure[1].drawn
    /\ Len(data.byStudy.GSE54650.tissues) >= 2
    /\ data.byStudy.GSE54650.tissues[1] # data.byStudy.GSE54650.tissues[2]

\* C6: every tissue row carries the primary study's stored rate x 100, the
\* cancer row GSE221103's rate x 100 and the organoid row GSE157357's rate
\* x 100; the category of a row follows from the study it came from, so rows
\* of different studies differ in category even when their rates are equal.
C6_RatesTimesHundred ==
    figure[1].drawn =>
        LET rows == figure[1].tissues_data
            by_study == data.byStudy
            n == Len(by_study.GSE54650.tissues)
        IN  /\ \A i \in 1..n :
                  /\ rows[i][2] = by_study.GSE54650.significantBonfRate * 100
                  /\ rows[i][3] \notin {rows[n + 1][3], rows[n + 2][3]}
            /\ rows[n + 1][2] = by_study.GSE221103.significantBonfRate * 100
            /\ rows[n + 2][2] = by_study.GSE157357.significantBonfRate * 100
            /\ rows[n + 1][3] # rows[n + 2][3]
            /\ figure[1].rates = [i \in 1..Len(rows) |-> rows[i][2]]

C6_Witness ==
    /\ figure[1].drawn
    /\ Len(data.byStudy.GSE54650.tissues) >= 1
    /\ data.byStudy.GSE54650.significantBonfRate > 0
    /\ data.byStudy.GSE221103.significantBonfRate
          = data.byStudy.GSE54650.significantBonfRate
    /\ data.byStudy.GSE157357.significantBonfRate
          = data.byStudy.GSE54650.significantBonfRate

\* C7 as stated: for every maxTargets >= 0 the gene significance matrix has
\* min(maxTargets, len(topTargetGenes)) rows.
C7_AnyMaxTargets ==
    \A maxTargets \in 0..MaxTargetGenes :
        figure[2].drawn =>
            Len(figure[2].matrix) = Min(maxTargets, Len(data.topTargetGenes))

\* C7 amended: the matrix has min(8, len(topTargetGenes)) rows and
\* len(topClockGenes) columns, row i is labelled with the gene of rank i, and
\* every cell of row i is topTargetGenes[i].tissuesSignificant.
C7_MatrixShapeAndBroadcast ==
    figure[2].drawn =>
        LET matrix == figure[2].matrix
            targets == data.topTargetGenes
            clocks == data.topClockGenes
            rows == Min(TopTargetsShown, Len(targets))
        IN  /\ Len(matrix) = rows
            /\ Len(figure[2].target_names) = rows
            /\ Len(figure[2].clock_genes) = Len(clocks)
            /\ \A j \in 1..Len(clocks) : figure[2].clock_genes[j] = clocks[j].gene
            /\ \A i \in 1..rows :
                  /\ figure[2].target_names[i] = targets[i].gene
                  /\ Len(matrix[i]) = Len(clocks)
                  /\ \A j \in 1..Len(clocks) :
                        matrix[i][j] = targets[i].tissuesSignificant

C7_Witness ==
    /\ figure[2].drawn
    /\ Len(data.topTargetGenes) > TopTargetsShown
    /\ Len(data.topClockGenes) >= 2
    /\ figure[2].matrix[1][1] # figure[2].matrix[2][1]

\* C8: the significance funnel has exactly 5 entries in the fixed stage order
\* tested, Bonferroni-significant, FDR-significant, high-confidence, tier 0
\* (under the code's bar labels), each with the unchanged count of
\* executiveSummary, whatever the counts are.
C8_FunnelVerbatim ==
    figure[5].drawn =>
        LET summary == data.executiveSummary
        IN  /\ Len(figure[5].funnel) = 5
            /\ figure[5].funnel =
                  << <<"Tested", summary.totalPairsTested>>,
                     <<"Bonferroni\nSig", summary.significantBonferroni>>,
                     <<"FDR\nSig", summary.significantFDR>>,
                     <<"High\nConfidence", summary.highConfidencePairs>>,
                     <<"TIER 0", summary.tier0Candidates>> >>

C8_Witness ==
    /\ figure[5].drawn
    /\ data.executiveSummary.significantFDR
          > data.executiveSummary.significantBonferroni
    /\ data.executiveSummary.totalPairsTested = 0
    /\ data.executiveSummary.tier0Candidates > 0

\* the number of commas of s
CommaCount(s) == Cardinality({i \in 1..Len(s) : s[i] = ","})

\* the number of places where s holds a comma followed by a space
SeparatorCount(s) ==
    Cardinality({i \in 1..(Len(s) - 1) : s[i] = "," /\ s[i + 1] = " "})

\* C9 as stated: the parsed list has as many elements as the raw string has
\* comma-separated tokens, and joining it with ", " gives the raw string back.
C9_CommaTokenCount ==
    figure[4].drawn =>
        LET raw == Wee1Summary(data).tissueList
        IN  /\ Len(figure[4].tissues) = CommaCount(raw) + 1
            /\ Join(figure[4].tissues, <<",", " ">>) = raw

\* C9 amended: the parsed list has one element more than the raw string has
\* occurrences of ", " (comma and space), and joining it with ", " gives the
\* raw string back; figure 3 counts the same list.
C9_SplitJoinRoundTrip ==
    figure[4].drawn =>
        LET raw == Wee1Summary(data).tissueList
        IN  /\ Len(figure[4].tissues) = SeparatorCount(raw) + 1
            /\ Join(figure[4].tissues, <<",", " ">>) = raw
            /\ figure[3].subtitle.count = SeparatorCount(raw) + 1

C9_Witness ==
    /\ figure[4].drawn
    /\ Len(figure[4].tissues) >= 2
    /\ CommaCount(Wee1Summary(data).tissueList)
          > SeparatorCount(Wee1Summary(data).tissueList)

\* C10: when the raw tissueList is the empty string, building the Wee1
\* profile fails: figure 4 is not produced and the run does not go past it.
C10_EmptyTissueListFails ==
    (/\ HasPath(data, Wee1Path \o <<"tissueList">>)
     /\ Wee1Summary(data).tissueList = <<>>) =>
        /\ ~figure[4].drawn
        /\ 4 \notin Saved
        /\ pc \notin {"figure5", "listing", "done"}


\* C11: after any sequence of renderer calls, in any order and with
\* repetitions, the document is the document as loaded, and every call of a
\* renderer builds the draw specification (and raises what) its first call did.
C11_RenderersArePure ==
    /\ data = loaded
    /\ \A m \in 1..Len(calls) : \A n \in m..Len(calls) :
          calls[m].renderer = calls[n].renderer =>
              /\ calls[n].outcome.spec = calls[m].outcome.spec
              /\ calls[n].outcome.raised = calls[m].outcome.raised

C11_Witness ==
    /\ Len(calls) >= 3
    /\ calls[1].renderer = 2
    /\ calls[3].renderer = 2
    /\ calls[2].renderer = 1
    /\ calls[1].outcome.spec.drawn
    /\ calls[2].outcome.spec.drawn
    /\ Len(loaded.topTargetGenes) > TopTargetsShown

\* C12: a renderer that completes has written its two files, one PNG and one
\* PDF, named after the figure index alone; the names of two renderers are
\* disjoint, so the directory holds, next to what it held before, exactly the
\* two files of every renderer that saved, in whatever order the renderers ran.
C12_TwoFilesDisjointNames ==
    /\ \A n \in 1..Len(calls) :
          calls[n].outcome.raised = NoError =>
              /\ PngName[calls[n].renderer] \in written
              /\ PdfName[calls[n].renderer] \in written
    /\ \A k \in Renderers : PngName[k] # PdfName[k]
    /\ \A j \in Renderers : \A k \in Renderers \ {j} :
          {PngName[j], PdfName[j]} \cap {PngName[k], PdfName[k]} = {}
    /\ written = existing \cup UNION {{PngName[k], PdfName[k]} : k \in Saved}
    /\ Cardinality(UNION {{PngName[k], PdfName[k]} : k \in Saved}) = 2 * Cardinality(Saved)

C12_Witness ==
    /\ Len(calls) >= 3
    /\ calls[1].renderer > calls[2].renderer
    /\ calls[2].renderer > calls[3].renderer
    /\ \A n \in 1..3 : calls[n].outcome.raised = NoError
    /\ existing = {OtherFile}
    /\ Cardinality(written) = 7

(***************************************************************************)
(* figure2_heatmap.py *)
(***************************************************************************)

\* C13 as stated: each drawn matrix has one row per target gene in key
\* order and one column per clock gene, and a tissue holding a value list
\* longer than clockGenes is never drawn, because the script fails on it.
C13_LongerListFails ==
    \A n \in 1..Len(heatmap.drawn) :
        LET targets == heatmap.data.tissues[n].targets
            frame == heatmap.drawn[n]
        IN  /\ Len(frame.matrix) = Len(targets)
            /\ frame.columns = heatmap.data.clockGenes
            /\ \A i \in 1..Len(targets) :
                   Len(targets[i].values) <= Len(heatmap.data.clockGenes)

\* C13 amended: each drawn matrix has one row per target gene in key order
\* and one column per clock gene; cell (i, j) is the j-th value of gene i
\* when it exists and is not null, and 0 otherwise; the values beyond the
\* last column of a drawn tissue are all null and are dropped.  The script
\* fails with IndexError exactly at a tissue holding a value that is not null
\* beyond the last column; its only other failure is a ValueError of the
\* plotting library at a tissue whose matrix has no cell (no gene, or no
\* clock gene).  A failure ends the run before the failing tissue is saved:
\* the directory holds the PDF and the PNG of the tissues drawn before it and
\* nothing else, and a finished run has drawn every tissue.
C13_MatrixCells ==
    LET ncols == Len(heatmap.data.clockGenes)
        tissues == heatmap.data.tissues
        failing == tissues[heatmap.next].targets
        nonNullExtra == \E i \in 1..Len(failing) :
                           \E j \in (ncols + 1)..Len(failing[i].values) :
                               failing[i].values[j] # Null
    IN  /\ \A n \in 1..Len(heatmap.drawn) :
               LET targets == tissues[n].targets
                   frame == heatmap.drawn[n]
               IN  /\ Len(frame.matrix) = Len(targets)
                   /\ Len(frame.index) = Len(targets)
                   /\ frame.columns = heatmap.data.clockGenes
                   /\ \A i \in 1..Len(targets) :
                          /\ frame.index[i] = targets[i].gene
                          /\ Len(frame.matrix[i]) = ncols
                          /\ \A j \in 1..ncols :
                                 frame.matrix[i][j] =
                                    IF j > Len(targets[i].values) THEN 0
                                    ELSE IF targets[i].values[j] = Null THEN 0
                                    ELSE targets[i].values[j][1]
                          /\ \A j \in (ncols + 1)..Len(targets[i].values) :
                                 targets[i].values[j] = Null
        /\ DOMAIN heatmap.files =
               {HeatmapFile(tissues[n].name, ext) :
                   n \in 1..Len(heatmap.drawn), ext \in {"pdf", "png"}}
        /\ heatmap.pc = "aborted" =>
               /\ heatmap.next = Len(heatmap.drawn) + 1
               /\ heatmap.next <= Len(tissues)
               /\ heatmap.error \in {IndexError, ValueError}
               /\ heatmap.error = IndexError <=> nonNullExtra
               /\ heatmap.error = ValueError => Len(failing) = 0 \/ ncols = 0
        /\ heatmap.pc = "loop" /\ heatmap.next <= Len(tissues) =>
               heatmap.next = Len(heatmap.drawn) + 1
        /\ heatmap.pc = "done" => Len(heatmap.drawn) = Len(tissues)

\* a finished run that drew a tissue with a value list longer than
\* clockGenes, a null cell, a cell past the end of a short list and a
\* stored value
C13_Witness ==
    /\ heatmap.pc = "done"
    /\ Len(heatmap.data.clockGenes) = 2
    /\ \E n \in 1..Len(heatmap.drawn) :
           LET targets == heatmap.data.tissues[n].targets
           IN  /\ Len(targets) = 2
               /\ targets[1].values = <<Null, Num(5), Null>>
               /\ targets[2].values = <<Num(7)>>
               /\ heatmap.drawn[n].matrix = <<<<0, 5>>, <<7, 0>>>>

\* C14 as stated: two tissues of different names that were both processed
\* have different file names, and the PDF and the PNG of every processed
\* tissue hold that tissue's heat map.
C14_NoTissueOverwritten ==
    \A n \in 1..Len(heatmap.drawn) :
        LET tissue == heatmap.data.tissues[n].name
        IN  /\ \A m \in 1..(n - 1) :
                   heatmap.data.tissues[m].name # tissue =>
                      /\ HeatmapFile(heatmap.data.tissues[m].name, "pdf") # HeatmapFile(tissue, "pdf")
                      /\ HeatmapFile(heatmap.data.tissues[m].name, "png") # HeatmapFile(tissue, "png")
            /\ heatmap.files[HeatmapFile(tissue, "pdf")] = heatmap.drawn[n]
            /\ heatmap.files[HeatmapFile(tissue, "png")] = heatmap.drawn[n]

=============================================================================
